---- MODULE Spec2Model ----
(***************************************************************************)
(* cctime: daily conversation summaries from timestamped JSONL records.    *)
(*                                                                         *)
(* Two specifications share this module:                                   *)
(*   Spec      loadDailyConversationData over a small file tree            *)
(*   SpecCalc  calculateConversationTime applied to one group of entries   *)
(*                                                                         *)
(* Timestamps are milliseconds since the model epoch, 2024-12-30T00:00Z    *)
(* (what new Date(ts).getTime() yields, shifted by a constant).  Strings   *)
(* the code builds or compares are sequences of one-character strings.     *)
(***************************************************************************)
EXTENDS Integers, Sequences, FiniteSets

VARIABLES
    tz,          \* local timezone of the process, minutes east of UTC
    files,       \* content of each .jsonl file, a sequence of lines
    pc,          \* position of the loadDailyConversationData call
    options,     \* LoadOptions of the call: since, until
    fileIndex,   \* index in usageFiles of the file being read
    allEntries,  \* entries pushed so far by the load loop
    result,      \* value the call resolved to
    calcIn,      \* SpecCalc: entries handed to calculateConversationTime
    calcOut,     \* SpecCalc: what calculateConversationTime computed
    dataDir,     \* what the Claude data directory holds, if it exists
    fmt,         \* SpecFormat: a total of minutes and its rendering
    calls,       \* SpecPair: the position and locals of each of two calls
    accs,        \* SpecPair: the allEntries array each call pushes to
    cli          \* SpecCli: the --days argument and what main displayed

vars == <<tz, files, pc, options, fileIndex, allEntries, result, calcIn, calcOut,
          dataDir, fmt, calls, accs, cli>>

----------------------------------------------------------------------------
(* Bounds *)

MaxLines == 3      \* lines written over all files
MaxDay == 1        \* UTC days 0..MaxDay carry events
MaxCalcLen == 4    \* entries in a group given to calculateConversationTime
MaxTotal == 1440   \* largest total of minutes rendered: a whole day
MaxPairLines == 1  \* SpecPair: lines in each file
MaxCliEntries == 3 \* SpecCli: entries loaded before main displays them
MaxDaysArg == 3    \* SpecCli: largest --days argument tried
MaxArgLen == 2     \* SpecArgs: characters in the value given to --days
MaxReportLen == 3  \* SpecReport: entries handed to the report's analyses
MaxPathLines == 1  \* SpecPaths: lines in each file

----------------------------------------------------------------------------
(* Time constants *)

MS_PER_MINUTE == 1000 * 60
\* mutant: a 30-minute tolerance
SESSION_GAP_MS_Thirty == 30 * 60 * 1000

SESSION_GAP_MS == 3 * 60 * 1000
MS_PER_DAY == 24 * 60 * MS_PER_MINUTE

At(h, m, s) == ((h * 60 + m) * 60 + s) * 1000

----------------------------------------------------------------------------
(* Strings as sequences of characters *)

Digit(n) ==
    CASE n = 0 -> "0" [] n = 1 -> "1" [] n = 2 -> "2" [] n = 3 -> "3"
      [] n = 4 -> "4" [] n = 5 -> "5" [] n = 6 -> "6" [] n = 7 -> "7"
      [] n = 8 -> "8" [] n = 9 -> "9"

RECURSIVE numberToString(_)
numberToString(n) ==
    IF n < 10 THEN <<Digit(n)>>
    ELSE numberToString(n \div 10) \o <<Digit(n % 10)>>

padStart2(s) == IF Len(s) < 2 THEN <<"0">> \o s ELSE s

CharCode(c) ==
    CASE c = "-" -> 45 [] c = "0" -> 48 [] c = "1" -> 49 [] c = "2" -> 50
      [] c = "3" -> 51 [] c = "4" -> 52 [] c = "5" -> 53 [] c = "6" -> 54
      [] c = "7" -> 55 [] c = "8" -> 56 [] c = "9" -> 57

\* a < b on JavaScript strings: code unit by code unit, a proper prefix first
RECURSIVE StringLess(_, _)
StringLess(a, b) ==
    IF b = <<>> THEN FALSE
    ELSE IF a = <<>> THEN TRUE
    ELSE IF CharCode(Head(a)) # CharCode(Head(b))
         THEN CharCode(Head(a)) < CharCode(Head(b))
    ELSE StringLess(Tail(a), Tail(b))

\* a.localeCompare(b) on strings of digits and '-'
localeCompare(a, b) ==
    IF a = b THEN 0 ELSE IF StringLess(a, b) THEN 0 - 1 ELSE 1

----------------------------------------------------------------------------
(* Session segmentation and duration: calculateConversationTime *)

\* mutant: Math.min in place of Math.max
MaxAsMin(a, b) == IF a <= b THEN a ELSE b

Max(a, b) == IF a >= b THEN a ELSE b

\* Array.prototype.sort with (a, b) => a.timestamp - b.timestamp: stable
RECURSIVE InsertByTimestamp(_, _)
InsertByTimestamp(sorted, e) ==
    IF sorted = <<>> THEN <<e>>
    ELSE IF sorted[Len(sorted)].timestamp - e.timestamp <= 0
         THEN Append(sorted, e)
    ELSE Append(InsertByTimestamp(SubSeq(sorted, 1, Len(sorted) - 1), e),
                sorted[Len(sorted)])

\* mutant: the entries are taken in the order given
SortByTimestampSkipped(entries) == entries

RECURSIVE SortByTimestamp(_)
SortByTimestamp(entries) ==
    IF entries = <<>> THEN <<>>
    ELSE InsertByTimestamp(
             SortByTimestamp(SubSeq(entries, 1, Len(entries) - 1)),
             entries[Len(entries)])

\* mutant: the boundary gap starts a new session
ContinuesSessionStrict(timeSinceLastMessage) == timeSinceLastMessage < SESSION_GAP_MS

ContinuesSession(timeSinceLastMessage) == timeSinceLastMessage <= SESSION_GAP_MS

\* mutant: the session still open after the loop is never pushed
RECURSIVE SessionLoopDropsLast(_, _, _, _, _)
SessionLoopDropsLast(sortedEntries, i, currentSessionStart, currentSessionEnd, sessions) ==
    IF i > Len(sortedEntries)
    THEN sessions
    ELSE LET currentTime == sortedEntries[i].timestamp
             timeSinceLastMessage == currentTime - currentSessionEnd
         IN  IF ContinuesSession(timeSinceLastMessage)
             THEN SessionLoopDropsLast(sortedEntries, i + 1, currentSessionStart,
                                       currentTime, sessions)
             ELSE SessionLoopDropsLast(sortedEntries, i + 1, currentTime, currentTime,
                                       Append(sessions, [start |-> currentSessionStart,
                                                         end |-> currentSessionEnd]))

\* the for loop over sortedEntries[1..], then the push of the last session
RECURSIVE SessionLoop(_, _, _, _, _)
SessionLoop(sortedEntries, i, currentSessionStart, currentSessionEnd, sessions) ==
    IF i > Len(sortedEntries)
    THEN Append(sessions, [start |-> currentSessionStart, end |-> currentSessionEnd])
    ELSE LET currentTime == sortedEntries[i].timestamp
             timeSinceLastMessage == currentTime - currentSessionEnd
         IN  IF ContinuesSession(timeSinceLastMessage)
             THEN SessionLoop(sortedEntries, i + 1, currentSessionStart,
                              currentTime, sessions)
             ELSE SessionLoop(sortedEntries, i + 1, currentTime, currentTime,
                              Append(sessions, [start |-> currentSessionStart,
                                                end |-> currentSessionEnd]))

\* mutant: one session from the first entry to the last, pauses included
SessionsFirstToLast(entries) ==
    LET sortedEntries == SortByTimestamp(entries)
    IN  <<[start |-> sortedEntries[1].timestamp,
           end |-> sortedEntries[Len(sortedEntries)].timestamp]>>

\* sessions of a group of two or more entries
Sessions(entries) ==
    LET sortedEntries == SortByTimestamp(entries)
    IN  SessionLoop(sortedEntries, 2, sortedEntries[1].timestamp,
                    sortedEntries[1].timestamp, <<>>)

\* mutant: no one-minute minimum
sessionMinutesNoMinimum(session) ==
    (session.end - session.start) \div MS_PER_MINUTE

sessionMinutes(session) ==
    Max(1, (session.end - session.start) \div MS_PER_MINUTE)

\* mutant: the idle time between the sessions is counted too
totalMinutesWithIdle(sessions) ==
    IF sessions = <<>> THEN 0
    ELSE Max(1, (sessions[Len(sessions)].end - sessions[1].start) \div MS_PER_MINUTE)

RECURSIVE totalMinutes(_)
totalMinutes(sessions) ==
    IF sessions = <<>> THEN 0
    ELSE sessionMinutes(Head(sessions)) + totalMinutes(Tail(sessions))

\* mutant: totalMinutes <= 60 in place of totalMinutes < 60
formatDurationSixtyAsMinutes(total) ==
    IF total <= 60 THEN numberToString(total) \o <<"m">>
    ELSE LET hours == total \div 60
             minutes == total % 60
         IN  IF minutes = 0 THEN numberToString(hours) \o <<"h">>
             ELSE numberToString(hours) \o <<"h", " ">> \o numberToString(minutes) \o <<"m">>

formatDuration(total) ==
    IF total < 60 THEN numberToString(total) \o <<"m">>
    ELSE LET hours == total \div 60
             minutes == total % 60
         IN  IF minutes = 0 THEN numberToString(hours) \o <<"h">>
             ELSE numberToString(hours) \o <<"h", " ">> \o numberToString(minutes) \o <<"m">>

\* mutant: the early return of the empty group also takes the one-entry group
conversationTimeRunOneIsNone(entries) ==
    IF Len(entries) <= 1
    THEN [sessions |-> <<>>, totalMinutes |-> 0, value |-> <<"0", "m">>]
    ELSE LET sessions == Sessions(entries)
             total == totalMinutes(sessions)
         IN  [sessions |-> sessions, totalMinutes |-> total,
              value |-> formatDuration(total)]

\* the locals of calculateConversationTime when it returns, and its value
conversationTimeRun(entries) ==
    IF Len(entries) = 0
    THEN [sessions |-> <<>>, totalMinutes |-> 0, value |-> <<"0", "m">>]
    ELSE IF Len(entries) = 1
         THEN [sessions |-> <<>>, totalMinutes |-> 0, value |-> <<"1", "m">>]
    ELSE LET sessions == Sessions(entries)
             total == totalMinutes(sessions)
         IN  [sessions |-> sessions, totalMinutes |-> total,
              value |-> formatDuration(total)]

calculateConversationTime(entries) == conversationTimeRun(entries).value

----------------------------------------------------------------------------
(* Local calendar: what Date's getFullYear/getMonth/getDate/getHours read *)

EpochDate == [year |-> 2024, month |-> 12, day |-> 30]

IsLeapYear(y) == (y % 4 = 0 /\ y % 100 # 0) \/ y % 400 = 0

DaysInMonth(y, m) ==
    IF m = 2 THEN (IF IsLeapYear(y) THEN 29 ELSE 28)
    ELSE IF m \in {4, 6, 9, 11} THEN 30 ELSE 31

NextDate(date) ==
    IF date.day < DaysInMonth(date.year, date.month)
    THEN [date EXCEPT !.day = date.day + 1]
    ELSE IF date.month < 12
         THEN [date EXCEPT !.month = date.month + 1, !.day = 1]
    ELSE [year |-> date.year + 1, month |-> 1, day |-> 1]

RECURSIVE DateAfter(_)
DateAfter(n) == IF n = 0 THEN EpochDate ELSE NextDate(DateAfter(n - 1))

\* the dates events and bounds can fall on, computed once
Calendar == [n \in 0..(MaxDay + 2) |-> DateAfter(n)]

CivilDate(n) == Calendar[n]

\* milliseconds on the local wall clock; tz is never negative here
LocalMs(timestamp, zone) == timestamp + zone * MS_PER_MINUTE

LocalDay(timestamp, zone) == LocalMs(timestamp, zone) \div MS_PER_DAY

formatTimeIn(timestamp, zone) ==
    LET msOfDay == LocalMs(timestamp, zone) % MS_PER_DAY
        hours == numberToString(msOfDay \div (60 * MS_PER_MINUTE))
        minutes == numberToString((msOfDay \div MS_PER_MINUTE) % 60)
    IN  padStart2(hours) \o <<":">> \o padStart2(minutes)

formatDateIn(timestamp, zone) ==
    LET date == CivilDate(LocalDay(timestamp, zone))
        year == numberToString(date.year)
        month == padStart2(numberToString(date.month))
        day == padStart2(numberToString(date.day))
    IN  year \o <<"-">> \o month \o <<"-">> \o day

formatTime(timestamp) == formatTimeIn(timestamp, tz)

\* mutant: the UTC date (getUTCFullYear, getUTCMonth, getUTCDate)
formatDateUTC(timestamp) == formatDateIn(timestamp, 0)

formatDate(timestamp) == formatDateIn(timestamp, tz)

\* dateStr.replace(/-/g, '')
removeDashes(s) == SelectSeq(s, LAMBDA c : c # "-")

----------------------------------------------------------------------------
(* Files and parsing *)

\* paths found by the glob claudePath/**/*.jsonl, deduplicated and sorted
usageFiles ==
    << [parentDir |-> "session-001", fileName |-> "chat"],
       [parentDir |-> "session-002", fileName |-> "usage"] >>

extractSessionIdFromPath(filePath) ==
    IF filePath.parentDir # "" /\ filePath.parentDir # "."
       /\ filePath.parentDir # ".claude"
    THEN filePath.parentDir
    ELSE IF filePath.fileName # "" /\ filePath.fileName # "usage"
            /\ filePath.fileName # "chat"
         THEN filePath.fileName
    ELSE "unknown"

\* the Claude data directories getClaudePaths finds: none when neither
\* CLAUDE_CONFIG_DIR nor a default path is a directory
getClaudePaths(dir) == IF dir = "missing" THEN <<>> ELSE <<dir>>

\* the **/*.jsonl files below the data directories
findUsageFiles(claudePaths) ==
    IF \E k \in 1..Len(claudePaths) : claudePaths[k] = "populated"
    THEN usageFiles
    ELSE <<>>

\* a line is a record matching usageDataSchema, or text that does not parse
InvalidLine == [valid |-> FALSE, timestamp |-> 0, sessionId |-> ""]

\* the time value of new Date(timestamp) for a timestamp that matches the
\* schema's pattern and names no instant (month 13, hour 99): NaN
NaN == 0 - 1

\* a record without a sessionId field: sessionId "" stands for undefined
ValidLine(t) == [valid |-> TRUE, timestamp |-> t, sessionId |-> ""]

\* a record that carries its own sessionId
LineWithSessionId(t, id) == [valid |-> TRUE, timestamp |-> t, sessionId |-> id]

\* mutant: parseUsageEntry does not catch, so an invalid line ends in the
\* catch of loadUsageFile and the whole file yields no entry
loadUsageFileFailsOnInvalid(lines) ==
    IF \E k \in 1..Len(lines) : ~lines[k].valid THEN <<>>
    ELSE [k \in 1..Len(lines) |->
             [timestamp |-> lines[k].timestamp, sessionId |-> lines[k].sessionId]]

\* parseUsageEntry returns null for the lines this drops
RECURSIVE loadUsageFile(_)
loadUsageFile(lines) ==
    IF lines = <<>> THEN <<>>
    ELSE IF Head(lines).valid
         THEN <<[timestamp |-> Head(lines).timestamp, sessionId |-> Head(lines).sessionId]>>
              \o loadUsageFile(Tail(lines))
    ELSE loadUsageFile(Tail(lines))

\* mutant: the record's own sessionId is kept when it has one
RECURSIVE pushEntriesKeepOwnId(_, _, _)
pushEntriesKeepOwnId(entries, sessionId, filePath) ==
    IF entries = <<>> THEN <<>>
    ELSE <<[timestamp |-> Head(entries).timestamp,
            sessionId |-> IF Head(entries).sessionId # "" THEN Head(entries).sessionId
                          ELSE sessionId,
            filePath |-> filePath]>>
         \o pushEntriesKeepOwnId(Tail(entries), sessionId, filePath)

\* allEntries.push({...entry, sessionId, filePath}) for each entry of a file:
\* the sessionId written after the spread replaces the entry's own
RECURSIVE pushEntries(_, _, _)
pushEntries(entries, sessionId, filePath) ==
    IF entries = <<>> THEN <<>>
    ELSE <<[timestamp |-> Head(entries).timestamp, sessionId |-> sessionId,
            filePath |-> filePath]>>
         \o pushEntries(Tail(entries), sessionId, filePath)

----------------------------------------------------------------------------
(* Aggregation: the synchronous tail of loadDailyConversationData *)

\* mutant: bounds excluded (<= and >= in place of < and >)
keepEntryExclusive(entry, opts) ==
    LET dateStr == removeDashes(formatDate(entry.timestamp))
    IN  IF opts.since # <<>> /\ ~StringLess(opts.since, dateStr) THEN FALSE
        ELSE IF opts.until # <<>> /\ ~StringLess(dateStr, opts.until) THEN FALSE
        ELSE TRUE

\* the predicate of allEntries.filter; "" is falsy, so an empty bound is none
keepEntry(entry, opts) ==
    LET dateStr == removeDashes(formatDate(entry.timestamp))
    IN  IF opts.since # <<>> /\ StringLess(dateStr, opts.since) THEN FALSE
        ELSE IF opts.until # <<>> /\ StringLess(opts.until, dateStr) THEN FALSE
        ELSE TRUE

filterEntries(entries, opts) ==
    IF opts.since = <<>> /\ opts.until = <<>> THEN entries
    ELSE SelectSeq(entries, LAMBDA e : keepEntry(e, opts))

\* mutant: dailyGroups.set(date, []) runs for every entry, not only for a new date
RECURSIVE groupByDateReset(_, _)
groupByDateReset(entries, dailyGroups) ==
    IF entries = <<>> THEN dailyGroups
    ELSE LET entry == Head(entries)
             date == formatDate(entry.timestamp)
             has == \E k \in 1..Len(dailyGroups) : dailyGroups[k].date = date
             withKey == IF has THEN dailyGroups
                        ELSE Append(dailyGroups, [date |-> date, entries |-> <<>>])
             pushed == [k \in 1..Len(withKey) |->
                          IF withKey[k].date = date
                          THEN [withKey[k] EXCEPT !.entries = <<entry>>]
                          ELSE withKey[k]]
         IN  groupByDateReset(Tail(entries), pushed)

\* dailyGroups: a Map, kept as the sequence of its keys in insertion order
RECURSIVE groupByDate(_, _)
groupByDate(entries, dailyGroups) ==
    IF entries = <<>> THEN dailyGroups
    ELSE LET entry == Head(entries)
             date == formatDate(entry.timestamp)
             has == \E k \in 1..Len(dailyGroups) : dailyGroups[k].date = date
             withKey == IF has THEN dailyGroups
                        ELSE Append(dailyGroups, [date |-> date, entries |-> <<>>])
             pushed == [k \in 1..Len(withKey) |->
                          IF withKey[k].date = date
                          THEN [withKey[k] EXCEPT !.entries = Append(@, entry)]
                          ELSE withKey[k]]
         IN  groupByDate(Tail(entries), pushed)

\* Array.from(new Set(ids)): first occurrences, in order
RECURSIVE uniqueIds(_, _)
uniqueIds(ids, seen) ==
    IF ids = <<>> THEN seen
    ELSE IF \E k \in 1..Len(seen) : seen[k] = Head(ids)
         THEN uniqueIds(Tail(ids), seen)
    ELSE uniqueIds(Tail(ids), Append(seen, Head(ids)))

\* mutant: no Set, every entry's identifier is listed
sessionIdsWithRepeats(entries) ==
    [k \in 1..Len(entries) |-> entries[k].sessionId]

sessionIdsOf(entries) ==
    uniqueIds([k \in 1..Len(entries) |-> entries[k].sessionId], <<>>)

\* mutant: entries.sort is missing, the group stays in load order
dailyConversationUnsorted(group) ==
    LET entries == group.entries
        firstEntry == entries[1]
        lastEntry == entries[Len(entries)]
    IN  [date |-> group.date,
         firstMessageTime |-> formatTime(firstEntry.timestamp),
         lastMessageTime |-> formatTime(lastEntry.timestamp),
         estimatedConversationTime |-> calculateConversationTime(entries),
         messageCount |-> Len(entries),
         sessionIds |-> sessionIdsOf(entries)]

dailyConversation(group) ==
    LET entries == SortByTimestamp(group.entries)
        firstEntry == entries[1]
        lastEntry == entries[Len(entries)]
    IN  [date |-> group.date,
         firstMessageTime |-> formatTime(firstEntry.timestamp),
         lastMessageTime |-> formatTime(lastEntry.timestamp),
         estimatedConversationTime |-> calculateConversationTime(entries),
         messageCount |-> Len(entries),
         sessionIds |-> sessionIdsOf(entries)]

\* dailyConversations.sort((a, b) => b.date.localeCompare(a.date)): stable
RECURSIVE InsertByDateDesc(_, _)
InsertByDateDesc(sorted, c) ==
    IF sorted = <<>> THEN <<c>>
    ELSE IF localeCompare(c.date, sorted[Len(sorted)].date) <= 0
         THEN Append(sorted, c)
    ELSE Append(InsertByDateDesc(SubSeq(sorted, 1, Len(sorted) - 1), c),
                sorted[Len(sorted)])

\* mutant: the summaries stay in the Map's insertion order
sortSkipped(conversations) == conversations

RECURSIVE sortByDateDesc(_)
sortByDateDesc(conversations) ==
    IF conversations = <<>> THEN <<>>
    ELSE InsertByDateDesc(
             sortByDateDesc(SubSeq(conversations, 1, Len(conversations) - 1)),
             conversations[Len(conversations)])

\* formatDate builds "NaN-NaN-NaN" from an Invalid Date and createDailyDate
\* throws on it; the filter or the grouping calls formatDate on every entry
aggregateThrows(entries) == \E k \in 1..Len(entries) : entries[k].timestamp = NaN

\* mutant: allEntries is returned as loaded, not as filtered
aggregateAllEntriesUnfiltered(entries, opts) ==
    LET filteredEntries == filterEntries(entries, opts)
        dailyGroups == groupByDate(filteredEntries, <<>>)
        dailyConversations == [k \in 1..Len(dailyGroups) |->
                                  dailyConversation(dailyGroups[k])]
    IN  [conversations |-> sortByDateDesc(dailyConversations),
         allEntries |-> entries]

aggregate(entries, opts) ==
    LET filteredEntries == filterEntries(entries, opts)
        dailyGroups == groupByDate(filteredEntries, <<>>)
        dailyConversations == [k \in 1..Len(dailyGroups) |->
                                  dailyConversation(dailyGroups[k])]
    IN  [conversations |-> sortByDateDesc(dailyConversations),
         allEntries |-> filteredEntries]

----------------------------------------------------------------------------
(* Inputs *)

TimeZones == {0, 60}

\* a morning hour, and an evening hour that is past midnight in a zone east of UTC
TimesOfDay == {At(9, 0, 0), At(23, 30, 0)}

Timestamps == {d * MS_PER_DAY + t : d \in 0..MaxDay, t \in TimesOfDay}

Lines == {ValidLine(t) : t \in Timestamps} \cup {InvalidLine, ValidLine(NaN)}

DataDirs == {"missing", "empty", "populated"}

\* a --since / --until argument written as YYYYMMDD
CompactDate(n) ==
    LET date == CivilDate(n)
    IN  numberToString(date.year) \o padStart2(numberToString(date.month))
        \o padStart2(numberToString(date.day))

\* --since: absent, or the second day of the model's calendar
SinceOptions == {<<>>, CompactDate(1)}

\* --until: absent, that day, or the day after
UntilOptions == {<<>>, CompactDate(1), CompactDate(2)}

CalcTimes ==
    {At(9, 0, 0), At(9, 3, 0), At(9, 3, 1), At(9, 5, 0), At(9, 6, 1),
     At(9, 15, 0), At(10, 15, 0), At(14, 0, 0)}

RECURSIVE SeqsUpTo(_, _)
SeqsUpTo(S, n) ==
    IF n = 0 THEN {<<>>}
    ELSE LET shorter == SeqsUpTo(S, n - 1)
         IN  shorter \cup {Append(q, x) : q \in shorter, x \in S}

NoOptions == [since |-> <<>>, until |-> <<>>]
NoResult == [conversations |-> <<>>, allEntries |-> <<>>]
NoRun == [sessions |-> <<>>, totalMinutes |-> 0, value |-> <<>>]
NoFormat == [total |-> 0, rendered |-> <<>>]
NoCli == [days |-> 0, exitCode |-> 0, rows |-> <<>>]

\* SpecPair: the two calls in flight
CallIds == {1, 2}
NoCall ==
    [pc |-> "idle", options |-> NoOptions, fileIndex |-> 0, result |-> NoResult,
     overlapped |-> FALSE]
NoCalls == [c \in CallIds |-> NoCall]
NoAccs == [c \in CallIds |-> <<>>]

RECURSIVE SumLen(_, _)
SumLen(fs, k) == IF k = 0 THEN 0 ELSE Len(fs[k]) + SumLen(fs, k - 1)

LineCount == SumLen(files, Len(usageFiles))

----------------------------------------------------------------------------
(* Spec: one call of loadDailyConversationData *)

Init ==
    /\ tz \in TimeZones
    /\ files = [f \in 1..Len(usageFiles) |-> <<>>]
    /\ pc = "idle"
    /\ options = NoOptions
    /\ fileIndex = 0
    /\ allEntries = <<>>
    /\ result = NoResult
    /\ calcIn = <<>>
    /\ calcOut = NoRun
    /\ dataDir \in DataDirs
    /\ fmt = NoFormat
    /\ calls = NoCalls
    /\ accs = NoAccs
    /\ cli = NoCli

\* a line is appended to a file before the tool runs
WriteLine(f, line) ==
    /\ pc = "idle"
    /\ dataDir = "populated"
    /\ LineCount < MaxLines
    /\ files' = [files EXCEPT ![f] = Append(@, line)]
    /\ UNCHANGED <<tz, pc, options, fileIndex, allEntries, result, calcIn, calcOut>>
    /\ UNCHANGED <<dataDir, fmt, calls, accs, cli>>

\* loadDailyConversationData(options) up to the first await loadUsageFile,
\* or to its return when there is no data directory or no file in it
Call(since, until) ==
    /\ pc = "idle"
    /\ options' = [since |-> since, until |-> until]
    /\ allEntries' = <<>>
    /\ LET claudePaths == getClaudePaths(dataDir)
       IN  IF Len(claudePaths) = 0 \/ Len(findUsageFiles(claudePaths)) = 0
           THEN /\ pc' = "done"
                /\ result' = [conversations |-> <<>>, allEntries |-> <<>>]
                /\ UNCHANGED fileIndex
           ELSE /\ pc' = "reading"
                /\ fileIndex' = 1
                /\ UNCHANGED result
    /\ UNCHANGED <<tz, files, calcIn, calcOut>>
    /\ UNCHANGED <<dataDir, fmt, calls, accs, cli>>

\* a file's content arrives: its entries are pushed, then either the next
\* file is requested or the call filters, groups, summarises and returns
FileLoaded ==
    /\ pc = "reading"
    /\ LET filePath == usageFiles[fileIndex]
           entries == loadUsageFile(files[fileIndex])
           sessionId == extractSessionIdFromPath(filePath)
           pushed == allEntries \o pushEntries(entries, sessionId, fileIndex)
       IN  /\ allEntries' = pushed
           /\ IF fileIndex < Len(usageFiles)
              THEN /\ fileIndex' = fileIndex + 1
                   /\ UNCHANGED <<pc, result>>
              ELSE IF aggregateThrows(pushed)
              THEN /\ pc' = "threw"
                   /\ UNCHANGED <<fileIndex, result>>
              ELSE /\ pc' = "done"
                   /\ result' = aggregate(pushed, options)
                   /\ UNCHANGED fileIndex
    /\ UNCHANGED <<tz, files, options, calcIn, calcOut>>
    /\ UNCHANGED <<dataDir, fmt, calls, accs, cli>>

Next ==
    \/ \E f \in 1..Len(usageFiles), line \in Lines : WriteLine(f, line)
    \/ \E since \in SinceOptions, until \in UntilOptions : Call(since, until)
    \/ FileLoaded

Spec == Init /\ [][Next]_vars

----------------------------------------------------------------------------
(* SpecCalc: calculateConversationTime on one group of entries *)

CalcEntries == {[timestamp |-> t] : t \in CalcTimes}

InitCalc ==
    /\ tz = 0
    /\ files = [f \in 1..Len(usageFiles) |-> <<>>]
    /\ pc = "calc"
    /\ options = NoOptions
    /\ fileIndex = 0
    /\ allEntries = <<>>
    /\ result = NoResult
    /\ calcIn \in SeqsUpTo(CalcEntries, MaxCalcLen)
    /\ calcOut = NoRun
    /\ dataDir = "populated"
    /\ fmt = NoFormat
    /\ calls = NoCalls
    /\ accs = NoAccs
    /\ cli = NoCli

Calculate ==
    /\ pc = "calc"
    /\ pc' = "returned"
    /\ calcOut' = conversationTimeRun(calcIn)
    /\ UNCHANGED <<tz, files, options, fileIndex, allEntries, result, calcIn>>
    /\ UNCHANGED <<dataDir, fmt, calls, accs, cli>>

NextCalc == Calculate

SpecCalc == InitCalc /\ [][NextCalc]_vars

----------------------------------------------------------------------------
(* Vocabulary of the properties *)

Range(q) == {q[k] : k \in 1..Len(q)}

Done == pc = "done"

Returned == pc = "returned"

\* the calendar date of local day n, written YYYY-MM-DD
IsoDates ==
    [n \in 0..(MaxDay + 2) |->
        LET date == CivilDate(n)
        IN  numberToString(date.year) \o <<"-">>
            \o padStart2(numberToString(date.month)) \o <<"-">>
            \o padStart2(numberToString(date.day))]

IsoDate(n) == IsoDates[n]

DayOfIso(text) == CHOOSE n \in 0..(MaxDay + 2) : IsoDate(n) = text

CompactDates == [n \in 0..(MaxDay + 2) |-> CompactDate(n)]

DayOfCompact(text) == CHOOSE n \in 0..(MaxDay + 2) : CompactDates[n] = text

LocalDayOf(entry) == LocalDay(entry.timestamp, tz)

\* the entry's local calendar date lies in [since, until]
InDateRange(entry) ==
    /\ options.since # <<>> => DayOfCompact(options.since) <= LocalDayOf(entry)
    /\ options.until # <<>> => LocalDayOf(entry) <= DayOfCompact(options.until)

Conversations == result.conversations

RECURSIVE SumMessageCount(_)
SumMessageCount(convs) ==
    IF convs = <<>> THEN 0
    ELSE Head(convs).messageCount + SumMessageCount(Tail(convs))

\* positions of the returned entries bucketed to the date of a summary
EntriesOn(date) ==
    {k \in 1..Len(result.allEntries) :
        IsoDate(LocalDayOf(result.allEntries[k])) = date}

----------------------------------------------------------------------------
(* C1: the messageCount values of the returned summaries add up to the     *)
(* number of events that pass the since/until filter, which is the length  *)
(* of the returned allEntries; every such event is counted in exactly one  *)
(* summary.                                                                *)

C1_MessageCountsAddUp ==
    Done =>
        /\ SumMessageCount(Conversations)
             = Cardinality({k \in 1..Len(allEntries) : InDateRange(allEntries[k])})
        /\ SumMessageCount(Conversations) = Len(result.allEntries)
        /\ \A k \in 1..Len(result.allEntries) :
              Cardinality({j \in 1..Len(Conversations) : k \in EntriesOn(Conversations[j].date)}) = 1
        /\ \A j \in 1..Len(Conversations) :
              Conversations[j].messageCount = Cardinality(EntriesOn(Conversations[j].date))

\* three events read, one removed by the filter, the other two on one date
C1_Witness ==
    /\ Done
    /\ Len(allEntries) = 3
    /\ Len(result.allEntries) = 2
    /\ Len(Conversations) = 1
    /\ Conversations[1].messageCount = 2

----------------------------------------------------------------------------
(* Vocabulary of the properties of calculateConversationTime *)

GroupTimes == {calcIn[k].timestamp : k \in 1..Len(calcIn)}

\* a and b are consecutive in ascending timestamp order
Consecutive(a, b) ==
    /\ a \in GroupTimes
    /\ b \in GroupTimes
    /\ a < b
    /\ ~ \E c \in GroupTimes : a < c /\ c < b

SameSession(a, b) ==
    \E k \in 1..Len(calcOut.sessions) :
        calcOut.sessions[k].start <= a /\ b <= calcOut.sessions[k].end

\* maximal runs of timestamps no more than 3 minutes apart, as <<first, last>>
StartsRun(t) == ~ \E u \in GroupTimes : u < t /\ t - u <= 3 * 60 * 1000

EndsRun(t) == ~ \E u \in GroupTimes : t < u /\ u - t <= 3 * 60 * 1000

RunEnd(first) ==
    CHOOSE last \in GroupTimes :
        /\ first <= last
        /\ EndsRun(last)
        /\ \A t \in GroupTimes : (first <= t /\ EndsRun(t)) => last <= t

Runs == {<<first, RunEnd(first)>> : first \in {t \in GroupTimes : StartsRun(t)}}

WholeMinutes(ms) == IF ms < 60 * 1000 THEN 1 ELSE ms \div (60 * 1000)

RECURSIVE SumRunMinutes(_)
SumRunMinutes(runs) ==
    IF runs = {} THEN 0
    ELSE LET r == CHOOSE x \in runs : TRUE
         IN  WholeMinutes(r[2] - r[1]) + SumRunMinutes(runs \ {r})

RECURSIVE SumSessionMinutes(_)
SumSessionMinutes(sessions) ==
    IF sessions = <<>> THEN 0
    ELSE WholeMinutes(Head(sessions).end - Head(sessions).start)
         + SumSessionMinutes(Tail(sessions))

\* the group is exactly two entries, at the times a and b
TwoEntriesAt(a, b) == Len(calcIn) = 2 /\ GroupTimes = {a, b}

\* time between the first and the last entry of the group
Elapsed ==
    LET first == CHOOSE t \in GroupTimes : \A u \in GroupTimes : t <= u
        last == CHOOSE t \in GroupTimes : \A u \in GroupTimes : u <= t
    IN  last - first

----------------------------------------------------------------------------
(* C2: two events consecutive in ascending timestamp order are in the same *)
(* session exactly when they are at most 180000 ms apart: 3 minutes apart  *)
(* is one session, 3 minutes and 1 second apart is two.                    *)

C2_GapBoundaryInclusive ==
    (Returned /\ Len(calcIn) >= 2) =>
        \A a, b \in GroupTimes :
            Consecutive(a, b) => (SameSession(a, b) <=> b - a <= 180000)

\* a pair exactly 3 minutes apart kept together, a pair 1 second further apart split
C2_Witness ==
    /\ Returned
    /\ \E a, b \in GroupTimes :
          Consecutive(a, b) /\ b - a = 180000 /\ SameSession(a, b)
    /\ \E a, b \in GroupTimes :
          Consecutive(a, b) /\ b - a = 181000 /\ ~SameSession(a, b)

----------------------------------------------------------------------------
(* C3: for a group of two or more events the total of active minutes is    *)
(* the sum over the sessions of max(1, floor((end - start) / 60000)), the  *)
(* sessions being the maximal runs of events at most 3 minutes apart.      *)

C3_TotalIsSumOfSessionMinutes ==
    (Returned /\ Len(calcIn) >= 2) =>
        /\ calcOut.totalMinutes = SumSessionMinutes(calcOut.sessions)
        /\ {<<calcOut.sessions[k].start, calcOut.sessions[k].end>> :
               k \in 1..Len(calcOut.sessions)} = Runs
        /\ Len(calcOut.sessions) = Cardinality(Runs)
        /\ calcOut.totalMinutes = SumRunMinutes(Runs)

\* several sessions: one of a single event, one longer than a minute by a fraction
C3_Witness ==
    /\ Returned
    /\ Len(calcOut.sessions) >= 2
    /\ \E k \in 1..Len(calcOut.sessions) :
          calcOut.sessions[k].start = calcOut.sessions[k].end
    /\ \E k \in 1..Len(calcOut.sessions) :
          LET ms == calcOut.sessions[k].end - calcOut.sessions[k].start
          IN  ms > 60000 /\ ms % 60000 # 0

----------------------------------------------------------------------------
(* C4, as amended: two events at 09:00 and 09:05 of one day are 5 minutes  *)
(* apart, more than the 3-minute tolerance: they form two single-event     *)
(* sessions and the estimated duration is "2m".                            *)

----------------------------------------------------------------------------
(* C5, as amended: for a day of exactly two messages the estimate is the   *)
(* rendering of max(1, whole minutes elapsed) when the messages are at most *)
(* 3 minutes apart and "2m" otherwise; 15 minutes, 75 minutes and 5 hours  *)
(* apart all give "2m".                                                    *)

----------------------------------------------------------------------------
(* C6: two events at 09:00 and 14:00 of one day form two single-event      *)
(* sessions, each counted as 1 minute: the estimated duration is "2m".     *)

----------------------------------------------------------------------------
(* C7: the returned summaries are strictly descending by date: each        *)
(* summary is on a later date than the one after it, and no date appears   *)
(* twice.                                                                  *)

C7_StrictlyDescendingDates ==
    Done =>
        /\ \A k \in 1..(Len(Conversations) - 1) :
              DayOfIso(Conversations[k].date) > DayOfIso(Conversations[k + 1].date)
        /\ \A j, k \in 1..Len(Conversations) :
              Conversations[j].date = Conversations[k].date => j = k

\* three dates, read in an order that is not descending
C7_Witness ==
    /\ Done
    /\ Len(Conversations) = 3
    /\ LocalDayOf(result.allEntries[1]) < LocalDayOf(result.allEntries[2])

----------------------------------------------------------------------------
(* C8: with since and/or until given as YYYYMMDD an event is kept exactly  *)
(* when its local date d has since <= d (if since is given) and d <= until *)
(* (if until is given), bounds included; every summary's date is in range. *)

C8_InclusiveDateRange ==
    Done =>
        /\ result.allEntries = SelectSeq(allEntries, InDateRange)
        /\ \A j \in 1..Len(Conversations) :
              LET day == DayOfIso(Conversations[j].date)
              IN  /\ options.since # <<>> => DayOfCompact(options.since) <= day
                  /\ options.until # <<>> => day <= DayOfCompact(options.until)

\* an event on the since date and one on the until date are kept, another is dropped
C8_Witness ==
    /\ Done
    /\ options.since # <<>>
    /\ options.until # <<>>
    /\ options.since # options.until
    /\ \E k \in 1..Len(result.allEntries) :
          LocalDayOf(result.allEntries[k]) = DayOfCompact(options.since)
    /\ \E k \in 1..Len(result.allEntries) :
          LocalDayOf(result.allEntries[k]) = DayOfCompact(options.until)
    /\ Len(result.allEntries) < Len(allEntries)

----------------------------------------------------------------------------
(* C9: events are bucketed by the calendar date of their timestamp in the  *)
(* local timezone, not UTC; there are as many summaries as distinct local  *)
(* dates among the filtered events.                                        *)

C9_LocalDateBuckets ==
    Done =>
        /\ Len(Conversations)
             = Cardinality({LocalDayOf(e) : e \in Range(result.allEntries)})
        /\ \A e \in Range(result.allEntries) :
              \E j \in 1..Len(Conversations) :
                  Conversations[j].date = IsoDate(LocalDayOf(e))
        /\ \A j \in 1..Len(Conversations) :
              \E e \in Range(result.allEntries) :
                  Conversations[j].date = IsoDate(LocalDayOf(e))

\* three events on two local days, one of them on another day in UTC
C9_Witness ==
    /\ Done
    /\ tz # 0
    /\ Len(result.allEntries) = 3
    /\ Len(Conversations) = 2
    /\ \E e \in Range(result.allEntries) : LocalDayOf(e) # LocalDay(e.timestamp, 0)

----------------------------------------------------------------------------
(* C10: a summary's sessionIds are exactly the distinct sessionId values   *)
(* of the events of its date, without duplicates: between 1 and            *)
(* messageCount of them.                                                   *)

C10_DistinctSessionIds ==
    Done =>
        \A j \in 1..Len(Conversations) :
            LET c == Conversations[j]
            IN  /\ Range(c.sessionIds)
                     = {result.allEntries[k].sessionId : k \in EntriesOn(c.date)}
                /\ Cardinality(Range(c.sessionIds)) = Len(c.sessionIds)
                /\ 1 <= Len(c.sessionIds)
                /\ Len(c.sessionIds) <= c.messageCount

\* three events of one date from two files: two identifiers
C10_Witness ==
    /\ Done
    /\ Len(Conversations) = 1
    /\ Conversations[1].messageCount = 3
    /\ Len(Conversations[1].sessionIds) = 2

----------------------------------------------------------------------------
(* C12: a group of exactly one event yields "1m", and that early return is *)
(* what the general rule gives for the group: one session with start = end *)
(* and max(1, floor(0)) = 1 minute.                                        *)

C12_SingleEventIsOneMinute ==
    (Returned /\ Len(calcIn) = 1) =>
        /\ calcOut.value = <<"1", "m">>
        /\ Sessions(calcIn) = <<[start |-> calcIn[1].timestamp,
                                 end |-> calcIn[1].timestamp]>>
        /\ formatDuration(totalMinutes(Sessions(calcIn))) = calcOut.value
        /\ Cardinality(Runs) = 1
        /\ formatDuration(SumRunMinutes(Runs)) = calcOut.value

C12_Witness == Returned /\ Len(calcIn) = 1 /\ calcOut.value = <<"1", "m">>

----------------------------------------------------------------------------
(* C14: the result of calculateConversationTime depends only on the        *)
(* multiset of timestamps: every permutation of the events gives the same  *)
(* session boundaries and the same duration, and so does the sequence      *)
(* already in ascending order.                                             *)

(* Every sequence of events is an input of SpecCalc, and the adjacent      *)
(* exchanges generate all permutations: a result that no adjacent exchange *)
(* changes, on every input, is the same on all orderings of a multiset.    *)

\* q with the events at positions i and i + 1 exchanged
Exchanged(q, i) ==
    [k \in 1..Len(q) |-> IF k = i THEN q[i + 1] ELSE IF k = i + 1 THEN q[i] ELSE q[k]]

\* q with the event at position i taken out
Without(q, i) == [k \in 1..(Len(q) - 1) |-> IF k < i THEN q[k] ELSE q[k + 1]]

IsAscending(q) == \A k \in 1..(Len(q) - 1) : q[k].timestamp <= q[k + 1].timestamp

\* the events of q, earliest first
RECURSIVE Ascending(_)
Ascending(q) ==
    IF q = <<>> THEN <<>>
    ELSE LET i == CHOOSE i \in 1..Len(q) :
                      \A j \in 1..Len(q) : q[i].timestamp <= q[j].timestamp
         IN  <<q[i]>> \o Ascending(Without(q, i))

C14_OrderOfEventsIrrelevant ==
    Returned =>
        /\ \A i \in 1..(Len(calcIn) - 1) :
              conversationTimeRun(Exchanged(calcIn, i)) = calcOut
        /\ conversationTimeRun(Ascending(calcIn)) = calcOut

\* three or more events given out of order, in more than one session
C14_Witness ==
    /\ Returned
    /\ Len(calcIn) >= 3
    /\ ~IsAscending(calcIn)
    /\ calcIn[1].timestamp > calcIn[Len(calcIn)].timestamp
    /\ Len(calcOut.sessions) >= 2

----------------------------------------------------------------------------
(* C18: idle time is excluded from the estimate: the total of active       *)
(* minutes of a group of events never exceeds max(1, floor of the minutes  *)
(* elapsed between its first and its last event), and is strictly smaller  *)
(* whenever the group splits into two or more sessions.                    *)

\* the total the call reports for a non-empty group
ActiveMinutes == IF Len(calcIn) = 1 THEN 1 ELSE calcOut.totalMinutes

----------------------------------------------------------------------------
(* The events of a call, read off the files: the lines that match the      *)
(* schema, name an instant and fall in the requested range of local dates. *)

FileLines == {<<f, k>> : f \in 1..Len(usageFiles), k \in 1..MaxLines}

\* positions <<file, line>> of the lines that are events
Events ==
    {p \in FileLines :
        /\ dataDir = "populated"
        /\ p[2] <= Len(files[p[1]])
        /\ files[p[1]][p[2]].valid
        /\ files[p[1]][p[2]].timestamp # NaN}

TimeOf(p) == files[p[1]][p[2]].timestamp

\* the events the since/until options keep
KeptEvents == {p \in Events : InDateRange([timestamp |-> TimeOf(p)])}

\* the kept events of one local calendar date
KeptOn(date) == {p \in KeptEvents : IsoDate(LocalDay(TimeOf(p), tz)) = date}

Digits == <<"0", "1", "2", "3", "4", "5", "6", "7", "8", "9">>

\* the local wall-clock time of an instant, written HH:MM
ClockText(timestamp) ==
    LET minuteOfDay == ((timestamp + tz * 60 * 1000) \div (60 * 1000)) % (24 * 60)
        h == minuteOfDay \div 60
        m == minuteOfDay % 60
    IN  <<Digits[(h \div 10) + 1], Digits[(h % 10) + 1], ":",
          Digits[(m \div 10) + 1], Digits[(m % 10) + 1]>>

Earliest(times) == CHOOSE t \in times : \A u \in times : t <= u
Latest(times) == CHOOSE t \in times : \A u \in times : u <= t

----------------------------------------------------------------------------
(* C11: for every returned summary, firstMessageTime is the local HH:MM    *)
(* rendering of the smallest timestamp among the events of that date and   *)
(* lastMessageTime that of the largest, whatever order they were loaded in.*)
C11_FirstAndLastMessageTime ==
    Done =>
        \A i \in 1..Len(Conversations) :
            LET c == Conversations[i]
                times == {TimeOf(p) : p \in KeptOn(c.date)}
            IN  /\ times # {}
                /\ c.firstMessageTime = ClockText(Earliest(times))
                /\ c.lastMessageTime = ClockText(Latest(times))

\* a date whose later event is loaded before its earlier one
C11_Witness ==
    /\ Done
    /\ \E i \in 1..Len(Conversations) :
          /\ Conversations[i].firstMessageTime # Conversations[i].lastMessageTime
          /\ \E p, q \in KeptOn(Conversations[i].date) :
                /\ p[1] < q[1] \/ (p[1] = q[1] /\ p[2] < q[2])
                /\ TimeOf(p) > TimeOf(q)

----------------------------------------------------------------------------
(* C15: aggregating zero events returns an empty summary sequence and      *)
(* never an error: when no data directory exists, when no .jsonl file is   *)
(* found, or when the filter removes every event, the call returns an      *)
(* empty conversations list and an empty allEntries list without throwing. *)

\* the call has ended, by returning or by throwing
Ended == pc \in {"done", "threw"}

\* lines that match the schema and name no instant: not well-formed events
IllDated ==
    {p \in FileLines :
        /\ p[2] <= Len(files[p[1]])
        /\ files[p[1]][p[2]].valid
        /\ files[p[1]][p[2]].timestamp = NaN}

C15_NoDirectoryReached == Done /\ dataDir = "missing" /\ result.conversations = <<>>
C15_NoFileReached == Done /\ dataDir = "empty" /\ result.conversations = <<>>

----------------------------------------------------------------------------
(* C16: a line that is not valid JSON or does not match the record schema  *)
(* is skipped without raising an error and never reaches the aggregation:  *)
(* the messageCount of a day counts only the valid records, and the valid  *)
(* lines before and after an invalid line in the same file are all still   *)
(* counted.                                                                *)

\* positions of the returned summaries of one date
SummariesOf(date) == {i \in 1..Len(Conversations) : Conversations[i].date = date}

C16_InvalidLinesSkipped ==
    /\ pc = "threw" => IllDated # {}
    /\ Done =>
          \A n \in 0..(MaxDay + 2) :
              LET date == IsoDate(n)
              IN  IF KeptOn(date) = {} THEN SummariesOf(date) = {}
                  ELSE /\ Cardinality(SummariesOf(date)) = 1
                       /\ \A i \in SummariesOf(date) :
                             Conversations[i].messageCount = Cardinality(KeptOn(date))

\* a file with an invalid line between two events that are both counted
C16_Witness ==
    /\ Done
    /\ \E f \in 1..Len(usageFiles) :
          /\ Len(files[f]) = 3
          /\ ~files[f][2].valid
          /\ {<<f, 1>>, <<f, 3>>} \subseteq KeptEvents
    /\ SumMessageCount(Conversations) = 2

----------------------------------------------------------------------------
(* SpecFormat: the rendering step of calculateConversationTime, applied to *)
(* each total of minutes from 0 to MaxTotal                                *)

InitFormat ==
    /\ tz = 0
    /\ files = [f \in 1..Len(usageFiles) |-> <<>>]
    /\ pc = "format"
    /\ options = NoOptions
    /\ fileIndex = 0
    /\ allEntries = <<>>
    /\ result = NoResult
    /\ calcIn = <<>>
    /\ calcOut = NoRun
    /\ dataDir = "populated"
    /\ fmt \in [total : 0..MaxTotal, rendered : {<<>>}]
    /\ calls = NoCalls
    /\ accs = NoAccs
    /\ cli = NoCli

Format ==
    /\ pc = "format"
    /\ pc' = "formatted"
    /\ fmt' = [fmt EXCEPT !.rendered = formatDuration(fmt.total)]
    /\ UNCHANGED <<tz, files, options, fileIndex, allEntries, result, calcIn, calcOut>>
    /\ UNCHANGED <<dataDir, calls, accs, cli>>

NextFormat == Format

SpecFormat == InitFormat /\ [][NextFormat]_vars

Formatted == pc = "formatted"

----------------------------------------------------------------------------
(* SpecPair: two calls of loadDailyConversationData in one process, their  *)
(* steps interleaving at the await of every loadUsageFile                  *)

PairLines == {ValidLine(At(9, 0, 0)), ValidLine(MS_PER_DAY + At(9, 0, 0))}

\* mutant: the array is declared at module level, one for all calls
accumulatorShared(c) == 1

\* const allEntries = [] is a local of the call: one array for each call
accumulatorOf(c) == c

InitPair ==
    /\ tz = 0
    /\ files \in [1..Len(usageFiles) -> SeqsUpTo(PairLines, MaxPairLines)]
    /\ pc = "pair"
    /\ options = NoOptions
    /\ fileIndex = 0
    /\ allEntries = <<>>
    /\ result = NoResult
    /\ calcIn = <<>>
    /\ calcOut = NoRun
    /\ dataDir = "populated"
    /\ fmt = NoFormat
    /\ calls = NoCalls
    /\ accs = NoAccs
    /\ cli = NoCli

\* call c runs up to its first await loadUsageFile
PairCall(c, since, until) ==
    /\ calls[c].pc = "idle"
    /\ LET claudePaths == getClaudePaths(dataDir)
       IN  IF Len(claudePaths) = 0 \/ Len(findUsageFiles(claudePaths)) = 0
           THEN /\ calls' = [calls EXCEPT ![c] =
                       [@ EXCEPT !.pc = "done",
                                 !.options = [since |-> since, until |-> until],
                                 !.result = [conversations |-> <<>>, allEntries |-> <<>>]]]
                /\ UNCHANGED accs
           ELSE /\ calls' = [calls EXCEPT ![c] =
                       [@ EXCEPT !.pc = "reading",
                                 !.options = [since |-> since, until |-> until],
                                 !.fileIndex = 1]]
                /\ accs' = [accs EXCEPT ![accumulatorOf(c)] = <<>>]
    /\ UNCHANGED <<tz, files, pc, options, fileIndex, allEntries, result, calcIn, calcOut>>
    /\ UNCHANGED <<dataDir, fmt, cli>>

\* the content of the file call c awaits arrives
PairFileLoaded(c) ==
    /\ calls[c].pc = "reading"
    /\ LET index == calls[c].fileIndex
           filePath == usageFiles[index]
           entries == loadUsageFile(files[index])
           sessionId == extractSessionIdFromPath(filePath)
           pushed == accs[accumulatorOf(c)] \o pushEntries(entries, sessionId, index)
           overlap == calls[c].overlapped \/ \E d \in CallIds \ {c} : calls[d].pc = "reading"
       IN  /\ accs' = [accs EXCEPT ![accumulatorOf(c)] = pushed]
           /\ IF index < Len(usageFiles)
              THEN calls' = [calls EXCEPT ![c] =
                       [@ EXCEPT !.fileIndex = index + 1, !.overlapped = overlap]]
              ELSE IF aggregateThrows(pushed)
              THEN calls' = [calls EXCEPT ![c] =
                       [@ EXCEPT !.pc = "threw", !.overlapped = overlap]]
              ELSE calls' = [calls EXCEPT ![c] =
                       [@ EXCEPT !.pc = "done", !.overlapped = overlap,
                                 !.result = aggregate(pushed, calls[c].options)]]
    /\ UNCHANGED <<tz, files, pc, options, fileIndex, allEntries, result, calcIn, calcOut>>
    /\ UNCHANGED <<dataDir, fmt, cli>>

NextPair ==
    \/ \E c \in CallIds, since \in SinceOptions, until \in UntilOptions :
          PairCall(c, since, until)
    \/ \E c \in CallIds : PairFileLoaded(c)

SpecPair == InitPair /\ [][NextPair]_vars

----------------------------------------------------------------------------
(* SpecCli: main of the command line tool, from the value that             *)
(* loadDailyConversationData resolved to, to what it displays              *)

\* one entry at 09:00 on each of the first three days
CliEntries ==
    {[timestamp |-> d * MS_PER_DAY + At(9, 0, 0), sessionId |-> "session-001",
      filePath |-> 1] : d \in 0..2}

\* --days absent (0, options.days is undefined) or a number that parseArgs
\* accepts: 1 to 30
DaysArgs == 0..MaxDaysArg

InitCli ==
    /\ tz = 0
    /\ files = [f \in 1..Len(usageFiles) |-> <<>>]
    /\ pc = "main"
    /\ options = NoOptions
    /\ fileIndex = 0
    /\ allEntries \in SeqsUpTo(CliEntries, MaxCliEntries)
    /\ result = aggregate(allEntries, NoOptions)
    /\ calcIn = <<>>
    /\ calcOut = NoRun
    /\ dataDir = "populated"
    /\ fmt = NoFormat
    /\ calls = NoCalls
    /\ accs = NoAccs
    /\ cli \in [days : DaysArgs, exitCode : {0}, rows : {<<>>}]

\* a value has the Array methods and is iterable when it is an array; the
\* object {conversations, allEntries} is not
isArray(value) == DOMAIN value # {"conversations", "allEntries"}

\* value.slice(0, n) of an array
slice(value, n) == SubSeq(value, 1, IF n < Len(value) THEN n ELSE Len(value))

\* the body of main's try block: TypeError when slice is called on, or
\* for...of runs over, a value that is not an array
mainDisplays(allConversations, days) ==
    IF days # 0 /\ ~isArray(allConversations) THEN [threw |-> TRUE, rows |-> <<>>]
    ELSE LET conversations == IF days # 0 THEN slice(allConversations, days)
                              ELSE allConversations
         IN  IF ~isArray(conversations) THEN [threw |-> TRUE, rows |-> <<>>]
             ELSE [threw |-> FALSE, rows |-> conversations]

\* main after the await: display, or the catch that prints the error and
\* exits with code 1
Main ==
    /\ pc = "main"
    /\ pc' = "exited"
    /\ LET allConversations == result
           outcome == mainDisplays(allConversations, cli.days)
       IN  cli' = [cli EXCEPT !.exitCode = IF outcome.threw THEN 1 ELSE 0,
                              !.rows = outcome.rows]
    /\ UNCHANGED <<tz, files, options, fileIndex, allEntries, result, calcIn, calcOut>>
    /\ UNCHANGED <<dataDir, fmt, calls, accs>>

NextCli == Main

SpecCli == InitCli /\ [][NextCli]_vars

Exited == pc = "exited"

----------------------------------------------------------------------------
(* SpecArgs: main from the command line: parseArgs, then the load, then    *)
(* the display                                                             *)

\* the value of a character as a digit in radix 10; 10 when it is none
radix10Digit(c) ==
    CASE c = "0" -> 0 [] c = "1" -> 1 [] c = "2" -> 2 [] c = "3" -> 3
      [] c = "4" -> 4 [] c = "5" -> 5 [] c = "6" -> 6 [] c = "7" -> 7
      [] c = "8" -> 8 [] c = "9" -> 9 [] OTHER -> 10

\* the longest prefix of s made of digits, read as a number
RECURSIVE digitsPrefix(_, _, _)
digitsPrefix(s, count, value) ==
    IF s = <<>> \/ radix10Digit(Head(s)) = 10 THEN [count |-> count, value |-> value]
    ELSE digitsPrefix(Tail(s), count + 1, 10 * value + radix10Digit(Head(s)))

\* parseInt(s, 10): an optional sign, then the digits up to the first
\* character that is not one; NaN when there is no digit
parseInt(s) ==
    LET negative == s # <<>> /\ Head(s) = "-"
        unsigned == IF s # <<>> /\ Head(s) \in {"-", "+"} THEN Tail(s) ELSE s
        digits == digitsPrefix(unsigned, 0, 0)
    IN  IF digits.count = 0 THEN [isNaN |-> TRUE, value |-> 0]
        ELSE [isNaN |-> FALSE, value |-> IF negative THEN 0 - digits.value ELSE digits.value]

\* the loop of parseArgs over args; only --days is given. days 0 stands for
\* options.days left undefined
RECURSIVE parseArgs(_, _)
parseArgs(args, days) ==
    IF args = <<>> THEN [exit |-> FALSE, days |-> days]
    ELSE IF Head(args) = "--days"
    THEN IF Len(args) >= 2
         THEN LET daysValue == parseInt(args[2])
              IN  IF daysValue.isNaN \/ daysValue.value < 1 \/ daysValue.value > 30
                  THEN [exit |-> TRUE, days |-> days]
                  ELSE parseArgs(Tail(Tail(args)), daysValue.value)
         ELSE parseArgs(Tail(args), days)
    ELSE parseArgs(Tail(args), days)

ArgChars == {"0", "1", "3", "x", "-"}

\* the texts given after --days
DaysValues == SeqsUpTo(ArgChars, MaxArgLen) \ {<<>>}

CommandLines == {<<>>, <<"--days">>} \cup {<<"--days", v>> : v \in DaysValues}

InitArgs ==
    /\ tz = 0
    /\ files = [f \in 1..Len(usageFiles) |-> <<>>]
    /\ pc = "start"
    /\ options = NoOptions
    /\ fileIndex = 0
    /\ allEntries \in SeqsUpTo(CliEntries, MaxCliEntries)
    /\ result = NoResult
    /\ calcIn = <<>>
    /\ calcOut = NoRun
    /\ dataDir = "populated"
    /\ fmt = NoFormat
    /\ calls = NoCalls
    /\ accs = NoAccs
    /\ cli \in [args : CommandLines, days : {0}, exitCode : {0}, rows : {<<>>}]

\* const options = parseArgs(): process.exit(1) on a rejected --days value
ParseArgs ==
    /\ pc = "start"
    /\ LET parsed == parseArgs(cli.args, 0)
       IN  IF parsed.exit
           THEN /\ pc' = "rejected"
                /\ cli' = [cli EXCEPT !.exitCode = 1]
           ELSE /\ pc' = "parsed"
                /\ cli' = [cli EXCEPT !.days = parsed.days]
    /\ UNCHANGED <<tz, files, options, fileIndex, allEntries, result, calcIn, calcOut>>
    /\ UNCHANGED <<dataDir, fmt, calls, accs>>

\* await loadDailyConversationData(options) resolves
LoadData ==
    /\ pc = "parsed"
    /\ pc' = "main"
    /\ result' = aggregate(allEntries, NoOptions)
    /\ UNCHANGED <<tz, files, options, fileIndex, allEntries, calcIn, calcOut>>
    /\ UNCHANGED <<dataDir, fmt, calls, accs, cli>>

NextArgs ==
    \/ ParseArgs
    \/ LoadData
    \/ Main

SpecArgs == InitArgs /\ [][NextArgs]_vars

----------------------------------------------------------------------------
(* The report generator: calculateProjectConversationTime,                 *)
(* analyzeSessionDetails, analyzeUserToUserGaps, convertToMinutes          *)

\* the for loop of calculateProjectConversationTime, then the last push
RECURSIVE projectSessionLoop(_, _, _, _, _)
projectSessionLoop(sortedEntries, i, currentSessionStart, currentSessionEnd, sessions) ==
    IF i > Len(sortedEntries)
    THEN Append(sessions, [start |-> currentSessionStart, end |-> currentSessionEnd])
    ELSE LET currentTime == sortedEntries[i].timestamp
             timeSinceLastMessage == currentTime - currentSessionEnd
         IN  IF timeSinceLastMessage <= 3 * 60 * 1000
             THEN projectSessionLoop(sortedEntries, i + 1, currentSessionStart,
                                     currentTime, sessions)
             ELSE projectSessionLoop(sortedEntries, i + 1, currentTime, currentTime,
                                     Append(sessions, [start |-> currentSessionStart,
                                                       end |-> currentSessionEnd]))

\* mutant: Math.round in place of Math.floor
RECURSIVE projectTotalMinutesRounded(_)
projectTotalMinutesRounded(sessions) ==
    IF sessions = <<>> THEN 0
    ELSE LET sessionDurationMs == Head(sessions).end - Head(sessions).start
             sessionMinutes_ == Max(1, (sessionDurationMs + 30 * 1000) \div (1000 * 60))
         IN  sessionMinutes_ + projectTotalMinutesRounded(Tail(sessions))

\* totalMinutes += Math.max(1, Math.floor(sessionDurationMs / (1000 * 60)))
RECURSIVE projectTotalMinutes(_)
projectTotalMinutes(sessions) ==
    IF sessions = <<>> THEN 0
    ELSE LET sessionDurationMs == Head(sessions).end - Head(sessions).start
             sessionMinutes_ == Max(1, sessionDurationMs \div (1000 * 60))
         IN  sessionMinutes_ + projectTotalMinutes(Tail(sessions))

\* the total of minutes the function renders; 0 and 1 for its early returns
projectMinutes(entries) ==
    IF Len(entries) = 0 THEN 0
    ELSE IF Len(entries) = 1 THEN 1
    ELSE LET sortedEntries == SortByTimestamp(entries)
         IN  projectTotalMinutes(
                 projectSessionLoop(sortedEntries, 2, sortedEntries[1].timestamp,
                                    sortedEntries[1].timestamp, <<>>))

calculateProjectConversationTime(entries) ==
    IF Len(entries) = 0 THEN <<"0", "m">>
    ELSE IF Len(entries) = 1 THEN <<"1", "m">>
    ELSE LET totalMinutes_ == projectMinutes(entries)
         IN  IF totalMinutes_ < 60 THEN numberToString(totalMinutes_) \o <<"m">>
             ELSE LET hours == totalMinutes_ \div 60
                      minutes == totalMinutes_ % 60
                  IN  IF minutes = 0 THEN numberToString(hours) \o <<"h">>
                      ELSE numberToString(hours) \o <<"h", " ">>
                           \o numberToString(minutes) \o <<"m">>

\* mutant: the duration has no minimum of one minute
sessionDetailNoMinimum(start, end, messageCount) ==
    [start |-> start, end |-> end,
     duration |-> (end - start) \div (1000 * 60),
     messageCount |-> messageCount]

\* a SessionDetail; the project name is left out
sessionDetail(start, end, messageCount) ==
    [start |-> start, end |-> end,
     duration |-> Max(1, (end - start) \div (1000 * 60)),
     messageCount |-> messageCount]

\* the for loop of analyzeSessionDetails, then the push of the last session
RECURSIVE detailLoop(_, _, _, _, _, _)
detailLoop(sortedEntries, i, currentSessionStart, currentSessionEnd, currentSessionMessages, sessions) ==
    IF i > Len(sortedEntries)
    THEN Append(sessions, sessionDetail(currentSessionStart, currentSessionEnd,
                                        currentSessionMessages))
    ELSE LET currentTime == sortedEntries[i].timestamp
             timeSinceLastMessage == currentTime - currentSessionEnd
         IN  IF timeSinceLastMessage <= 3 * 60 * 1000
             THEN detailLoop(sortedEntries, i + 1, currentSessionStart, currentTime,
                             currentSessionMessages + 1, sessions)
             ELSE detailLoop(sortedEntries, i + 1, currentTime, currentTime, 1,
                             Append(sessions,
                                    sessionDetail(currentSessionStart, currentSessionEnd,
                                                  currentSessionMessages)))

\* sessions.sort((a, b) => b.duration - a.duration): stable
RECURSIVE InsertByDurationDesc(_, _)
InsertByDurationDesc(sorted, s) ==
    IF sorted = <<>> THEN <<s>>
    ELSE IF s.duration - sorted[Len(sorted)].duration <= 0
         THEN Append(sorted, s)
    ELSE Append(InsertByDurationDesc(SubSeq(sorted, 1, Len(sorted) - 1), s),
                sorted[Len(sorted)])

RECURSIVE sortByDurationDesc(_)
sortByDurationDesc(sessions) ==
    IF sessions = <<>> THEN <<>>
    ELSE InsertByDurationDesc(
             sortByDurationDesc(SubSeq(sessions, 1, Len(sessions) - 1)),
             sessions[Len(sessions)])

\* mutant: the entries are walked in the order given, [...allEntries].sort is missing
analyzeSessionDetailsInputOrder(allEntries_) ==
    IF Len(allEntries_) = 0 THEN <<>>
    ELSE sortByDurationDesc(
             detailLoop(allEntries_, 2, allEntries_[1].timestamp,
                        allEntries_[1].timestamp, 1, <<>>))

analyzeSessionDetails(allEntries_) ==
    IF Len(allEntries_) = 0 THEN <<>>
    ELSE LET sortedEntries == SortByTimestamp(allEntries_)
         IN  sortByDurationDesc(
                 detailLoop(sortedEntries, 2, sortedEntries[1].timestamp,
                            sortedEntries[1].timestamp, 1, <<>>))

\* the for loop of analyzeUserToUserGaps over userMessages[1..]
RECURSIVE gapLoop(_, _, _)
gapLoop(userMessages, i, gaps) ==
    IF i > Len(userMessages) THEN gaps
    ELSE LET prevTime == userMessages[i - 1].timestamp
             currentTime == userMessages[i].timestamp
             gap == (currentTime - prevTime) \div (1000 * 60)
         IN  IF gap > 3
             THEN gapLoop(userMessages, i + 1,
                          Append(gaps, [gap |-> gap, timestamp |-> currentTime]))
             ELSE gapLoop(userMessages, i + 1, gaps)

\* gaps.sort((a, b) => b.gap - a.gap): stable
RECURSIVE InsertByGapDesc(_, _)
InsertByGapDesc(sorted, g) ==
    IF sorted = <<>> THEN <<g>>
    ELSE IF g.gap - sorted[Len(sorted)].gap <= 0
         THEN Append(sorted, g)
    ELSE Append(InsertByGapDesc(SubSeq(sorted, 1, Len(sorted) - 1), g),
                sorted[Len(sorted)])

RECURSIVE sortByGapDesc(_)
sortByGapDesc(gaps) ==
    IF gaps = <<>> THEN <<>>
    ELSE InsertByGapDesc(sortByGapDesc(SubSeq(gaps, 1, Len(gaps) - 1)), gaps[Len(gaps)])

analyzeUserToUserGaps(allEntries_) ==
    LET userMessages ==
            SortByTimestamp(SelectSeq(allEntries_, LAMBDA entry : entry.role = "user"))
    IN  sortByGapDesc(gapLoop(userMessages, 2, <<>>))

\* the text from position i on, past its leading white space
RECURSIVE skipSpaces(_, _)
skipSpaces(s, i) == IF i <= Len(s) /\ s[i] = " " THEN skipSpaces(s, i + 1) ELSE i

\* (?:(\d+)X)? tried at position i: the digits and the position after X when
\* digits followed by X are there, no capture and the same position otherwise
numberBefore(s, i, X) ==
    LET digits == digitsPrefix(SubSeq(s, i, Len(s)), 0, 0)
        after == i + digits.count
    IN  IF digits.count >= 1 /\ after <= Len(s) /\ s[after] = X
        THEN [captured |-> TRUE, value |-> digits.value, next |-> after + 1]
        ELSE [captured |-> FALSE, value |-> 0, next |-> i]

\* mutant: the pattern has no \s* between the hours and the minutes
convertToMinutesNoSpace(timeStr) ==
    LET hoursPart == numberBefore(timeStr, 1, "h")
        minutesPart == numberBefore(timeStr, hoursPart.next, "m")
    IN  hoursPart.value * 60 + minutesPart.value

\* timeStr.match(/(?:(\d+)h)?\s*(?:(\d+)m)?/) matches at the start of the
\* string; a group that did not take part counts as '0'
convertToMinutes(timeStr) ==
    LET hoursPart == numberBefore(timeStr, 1, "h")
        minutesPart == numberBefore(timeStr, skipSpaces(timeStr, hoursPart.next), "m")
    IN  hoursPart.value * 60 + minutesPart.value

----------------------------------------------------------------------------
(* SpecReport: the report's analyses and the loader's estimate, each       *)
(* applied to the same list of entries                                     *)

ReportTimes ==
    {At(9, 0, 0), At(9, 3, 0), At(9, 3, 30), At(9, 7, 0), At(10, 30, 0), At(10, 32, 0)}

\* message.role of a record: the user's prompt or the assistant's reply
Roles == {"user", "assistant"}

ReportEntries == {[timestamp |-> t, role |-> r] : t \in ReportTimes, r \in Roles}

\* n user messages three minutes apart: one session of 3 * (n - 1) minutes
LongRun(n) == [k \in 1..n |-> [timestamp |-> At(9, 0, 0) + (k - 1) * 3 * MS_PER_MINUTE,
                              role |-> "user"]]

NoReport == [projectTime |-> <<>>, loaderTime |-> <<>>, loaderSessions |-> <<>>,
             sessionDetails |-> <<>>, gaps |-> <<>>]

InitReport ==
    /\ tz = 0
    /\ files = [f \in 1..Len(usageFiles) |-> <<>>]
    /\ pc = "report"
    /\ options = NoOptions
    /\ fileIndex = 0
    /\ allEntries = <<>>
    /\ result = NoResult
    /\ calcIn \in SeqsUpTo(ReportEntries, MaxReportLen) \cup {LongRun(21), LongRun(22)}
    /\ calcOut = NoReport
    /\ dataDir = "populated"
    /\ fmt = NoFormat
    /\ calls = NoCalls
    /\ accs = NoAccs
    /\ cli = NoCli

Analyze ==
    /\ pc = "report"
    /\ pc' = "analyzed"
    /\ calcOut' = [projectTime |-> calculateProjectConversationTime(calcIn),
                   loaderTime |-> calculateConversationTime(calcIn),
                   loaderSessions |-> conversationTimeRun(calcIn).sessions,
                   sessionDetails |-> analyzeSessionDetails(calcIn),
                   gaps |-> analyzeUserToUserGaps(calcIn)]
    /\ UNCHANGED <<tz, files, options, fileIndex, allEntries, result, calcIn>>
    /\ UNCHANGED <<dataDir, fmt, calls, accs, cli>>

NextReport == Analyze

SpecReport == InitReport /\ [][NextReport]_vars

Analyzed == pc = "analyzed"

----------------------------------------------------------------------------
(* SpecPaths: one call of loadDailyConversationData over two files found   *)
(* at any two paths, with records that may carry their own sessionId       *)

\* paths as findUsageFiles returns them, in the order of its sort:
\*   /chat.jsonl                          /home/.claude/abc.jsonl
\*   /home/.claude/chat.jsonl             /home/.claude/session-001/chat.jsonl
\*   /home/.claude/session-001/usage.jsonl  /home/.claude/usage.jsonl
\*   /xyz.jsonl                           chat.jsonl
\*   xyz.jsonl
\* parentDir is path.basename(path.dirname(p)), fileName the base name
\* without its extension
PathList ==
    << [parentDir |-> "", fileName |-> "chat"],
       [parentDir |-> ".claude", fileName |-> "abc"],
       [parentDir |-> ".claude", fileName |-> "chat"],
       [parentDir |-> "session-001", fileName |-> "chat"],
       [parentDir |-> "session-001", fileName |-> "usage"],
       [parentDir |-> ".claude", fileName |-> "usage"],
       [parentDir |-> "", fileName |-> "xyz"],
       [parentDir |-> ".", fileName |-> "chat"],
       [parentDir |-> ".", fileName |-> "xyz"] >>

PathLines ==
    {ValidLine(d * MS_PER_DAY + At(9, 0, 0)) : d \in 0..1}
    \cup {LineWithSessionId(d * MS_PER_DAY + At(9, 0, 0), "own-id") : d \in 0..1}

\* two files, the earlier path first
FilePairs ==
    {<<[path |-> PathList[i], lines |-> a], [path |-> PathList[j], lines |-> b]>> :
        i \in 1..Len(PathList), j \in 1..Len(PathList),
        a \in SeqsUpTo(PathLines, MaxPathLines), b \in SeqsUpTo(PathLines, MaxPathLines)}

InitPaths ==
    /\ tz = 0
    /\ files \in {fs \in FilePairs :
                    \E i, j \in 1..Len(PathList) :
                        i < j /\ fs[1].path = PathList[i] /\ fs[2].path = PathList[j]}
    /\ pc = "paths"
    /\ options = NoOptions
    /\ fileIndex = 0
    /\ allEntries = <<>>
    /\ result = NoResult
    /\ calcIn = <<>>
    /\ calcOut = NoRun
    /\ dataDir = "populated"
    /\ fmt = NoFormat
    /\ calls = NoCalls
    /\ accs = NoAccs
    /\ cli = NoCli

\* the load loop over the files found: for each file, its entries pushed
\* with the identifier extracted from its path
RECURSIVE loadAllFiles(_, _)
loadAllFiles(fs, n) ==
    IF n = 0 THEN <<>>
    ELSE LET filePath == fs[n].path
             entries == loadUsageFile(fs[n].lines)
             sessionId == extractSessionIdFromPath(filePath)
         IN  loadAllFiles(fs, n - 1) \o pushEntries(entries, sessionId, n)

\* the whole call: every file loaded, then the aggregation
LoadPaths ==
    /\ pc = "paths"
    /\ LET pushed == loadAllFiles(files, Len(files))
       IN  /\ allEntries' = pushed
           /\ IF aggregateThrows(pushed)
              THEN pc' = "threw" /\ UNCHANGED result
              ELSE pc' = "done" /\ result' = aggregate(pushed, options)
    /\ UNCHANGED <<tz, files, options, fileIndex, calcIn, calcOut>>
    /\ UNCHANGED <<dataDir, fmt, calls, accs, cli>>

NextPaths == LoadPaths

SpecPaths == InitPaths /\ [][NextPaths]_vars

----------------------------------------------------------------------------
(* SpecConvert: a total of minutes rendered by calculateConversationTime,  *)
(* then read back by the report's convertToMinutes                         *)

InitConvert ==
    /\ tz = 0
    /\ files = [f \in 1..Len(usageFiles) |-> <<>>]
    /\ pc = "format"
    /\ options = NoOptions
    /\ fileIndex = 0
    /\ allEntries = <<>>
    /\ result = NoResult
    /\ calcIn = <<>>
    /\ calcOut = NoRun
    /\ dataDir = "populated"
    /\ fmt \in [total : 0..MaxTotal, rendered : {<<>>}, minutes : {0}]
    /\ calls = NoCalls
    /\ accs = NoAccs
    /\ cli = NoCli

\* prepareChartData and analyzeProjectActivity convert the rendered string
Convert ==
    /\ pc = "formatted"
    /\ pc' = "converted"
    /\ fmt' = [fmt EXCEPT !.minutes = convertToMinutes(fmt.rendered)]
    /\ UNCHANGED <<tz, files, options, fileIndex, allEntries, result, calcIn, calcOut>>
    /\ UNCHANGED <<dataDir, calls, accs, cli>>

NextConvert ==
    \/ Format
    \/ Convert

SpecConvert == InitConvert /\ [][NextConvert]_vars

Converted == pc = "converted"

----------------------------------------------------------------------------
(* Reading a rendered duration back: "{m}m", "{h}h" or "{h}h {m}m". *)

DigitValue(c) == CHOOSE d \in 0..9 : Digits[d + 1] = c

IsNumeral(s) ==
    /\ Len(s) >= 1
    /\ \A k \in 1..Len(s) : \E d \in 0..9 : Digits[d + 1] = s[k]
    /\ Len(s) > 1 => s[1] # "0"

RECURSIVE NumeralValue(_)
NumeralValue(s) ==
    IF s = <<>> THEN 0
    ELSE 10 * NumeralValue(SubSeq(s, 1, Len(s) - 1)) + DigitValue(s[Len(s)])

\* text is a duration in one of the three forms
IsDurationText(text) ==
    LET hs == {k \in 1..Len(text) : text[k] = "h"}
    IN  IF hs = {}
        THEN /\ Len(text) >= 2
             /\ text[Len(text)] = "m"
             /\ IsNumeral(SubSeq(text, 1, Len(text) - 1))
        ELSE LET k == CHOOSE k \in hs : TRUE
             IN  /\ Cardinality(hs) = 1
                 /\ IsNumeral(SubSeq(text, 1, k - 1))
                 /\ \/ k = Len(text)
                    \/ /\ Len(text) >= k + 3
                       /\ text[k + 1] = " "
                       /\ text[Len(text)] = "m"
                       /\ IsNumeral(SubSeq(text, k + 2, Len(text) - 1))

\* the minutes a duration text stands for
DurationMinutes(text) ==
    LET hs == {k \in 1..Len(text) : text[k] = "h"}
    IN  IF hs = {} THEN NumeralValue(SubSeq(text, 1, Len(text) - 1))
        ELSE LET k == CHOOSE k \in hs : TRUE
             IN  60 * NumeralValue(SubSeq(text, 1, k - 1))
                 + (IF k = Len(text) THEN 0
                    ELSE NumeralValue(SubSeq(text, k + 2, Len(text) - 1)))

----------------------------------------------------------------------------
(* C19: every returned summary has messageCount >= 1 and an estimated      *)
(* duration of at least one minute: no summary is produced for a date      *)
(* without events, and no summary's duration is "0m".                      *)
C19_NoEmptySummary ==
    Done =>
        \A i \in 1..Len(Conversations) :
            LET c == Conversations[i]
            IN  /\ c.messageCount >= 1
                /\ KeptOn(c.date) # {}
                /\ c.estimatedConversationTime # <<"0", "m">>
                /\ IsDurationText(c.estimatedConversationTime)
                /\ DurationMinutes(c.estimatedConversationTime) >= 1

\* a day whose two events are less than a minute apart
C19_Witness ==
    /\ Done
    /\ \E i \in 1..Len(Conversations) :
          /\ Conversations[i].messageCount = 2
          /\ Cardinality({TimeOf(p) : p \in KeptOn(Conversations[i].date)}) = 1
          /\ Conversations[i].estimatedConversationTime = <<"1", "m">>

----------------------------------------------------------------------------
(* C13: for every total T of active minutes, the rendered duration is      *)
(* "{T}m" when T < 60, "{T div 60}h" when T >= 60 and T mod 60 = 0, and    *)
(* "{T div 60}h {T mod 60}m" otherwise.                                    *)

\* the decimal numeral of n < 10000: its four digits without leading zeros
Decimal(n) ==
    LET padded == <<Digits[((n \div 1000) % 10) + 1], Digits[((n \div 100) % 10) + 1],
                    Digits[((n \div 10) % 10) + 1], Digits[(n % 10) + 1]>>
        first == IF n >= 1000 THEN 1 ELSE IF n >= 100 THEN 2 ELSE IF n >= 10 THEN 3 ELSE 4
    IN  SubSeq(padded, first, 4)

C13_RenderingRule ==
    Formatted =>
        LET T == fmt.total
        IN  /\ T < 60 => fmt.rendered = Decimal(T) \o <<"m">>
            /\ (T >= 60 /\ T % 60 = 0) => fmt.rendered = Decimal(T \div 60) \o <<"h">>
            /\ (T >= 60 /\ T % 60 # 0) =>
                  fmt.rendered = Decimal(T \div 60) \o <<"h", " ">>
                                 \o Decimal(T % 60) \o <<"m">>
            /\ IsDurationText(fmt.rendered)
            /\ DurationMinutes(fmt.rendered) = T

\* a whole number of hours, rendered without minutes
C13_Witness == Formatted /\ fmt.total = 60 /\ fmt.rendered = <<"1", "h">>

\* the other two forms
C13_MinutesReached == Formatted /\ fmt.total = 59 /\ fmt.rendered = <<"5", "9", "m">>
C13_HoursAndMinutesReached ==
    Formatted /\ fmt.total = 615 /\ fmt.rendered = <<"1", "0", "h", " ", "1", "5", "m">>

----------------------------------------------------------------------------
(* C17: two calls of loadDailyConversationData whose steps interleave at   *)
(* their await points each return the same result as when run alone: no    *)
(* mutable state is shared between calls.                                  *)

\* what a call with these options returns when nothing else runs: every
\* file loaded in turn, then the aggregation
RECURSIVE LoadedUpTo(_)
LoadedUpTo(n) ==
    IF n = 0 THEN <<>>
    ELSE LoadedUpTo(n - 1)
         \o pushEntries(loadUsageFile(files[n]), extractSessionIdFromPath(usageFiles[n]), n)

ResultAlone(opts) == aggregate(LoadedUpTo(Len(usageFiles)), opts)

C17_InterleavedCallsIndependent ==
    \A c \in CallIds :
        calls[c].pc = "done" => calls[c].result = ResultAlone(calls[c].options)

\* both calls returned after steps of each ran while the other was reading,
\* and they returned different, non-empty results
C17_Witness ==
    /\ \A c \in CallIds :
          /\ calls[c].pc = "done"
          /\ calls[c].overlapped
          /\ calls[c].result.conversations # <<>>
    /\ calls[1].result # calls[2].result

----------------------------------------------------------------------------
(* C20: with --days N (1 <= N <= 30) the displayed rows are the N most     *)
(* recent dates of the descending-sorted summaries (all of them when fewer *)
(* than N exist), and without --days every summary is shown.               *)

\* the first n summaries, or all of them when there are fewer
MostRecent(n) ==
    [k \in 1..(IF n < Len(Conversations) THEN n ELSE Len(Conversations)) |->
        Conversations[k]]

C20_DaysShowsMostRecent ==
    Exited =>
        /\ cli.days = 0 => cli.rows = Conversations
        /\ cli.days # 0 => cli.rows = MostRecent(cli.days)

----------------------------------------------------------------------------
(* C21: a --days value that is not a number, is below 1 or is above 30     *)
(* makes the CLI print an error and exit with status 1 before any data is  *)
(* loaded; a value between 1 and 30 is accepted and stored.                *)

\* text is a decimal numeral, with or without a minus sign
IsNumberText(text) ==
    LET unsigned == IF text # <<>> /\ text[1] = "-" THEN Tail(text) ELSE text
    IN  /\ unsigned # <<>>
        /\ \A k \in 1..Len(unsigned) : \E d \in 0..9 : Digits[d + 1] = unsigned[k]

NumberOf(text) ==
    IF text[1] = "-" THEN 0 - NumeralValue(Tail(text)) ELSE NumeralValue(text)

C21_DaysValueValidated ==
    (pc # "start" /\ Len(cli.args) = 2) =>
        LET v == cli.args[2]
        IN  IF IsNumberText(v) /\ 1 <= NumberOf(v) /\ NumberOf(v) <= 30
            THEN pc # "rejected" /\ cli.days = NumberOf(v)
            ELSE pc = "rejected" /\ cli.exitCode = 1 /\ result = NoResult

----------------------------------------------------------------------------
(* C22: for every non-empty group, the sessions produced by the            *)
(* segmentation are ordered by time and do not overlap; each session has   *)
(* start <= end, both timestamps of events of the group; consecutive       *)
(* events inside one session are at most 3 minutes apart; the end of one   *)
(* session and the start of the next are more than 3 minutes apart; and    *)
(* every event lies in exactly one session.                                *)

ThreeMinutes == 3 * 60 * 1000

\* the sessions of a list, whatever order the list is in
Segmented(ss) ==
    /\ \A k \in 1..Len(ss) :
          /\ ss[k].start <= ss[k].end
          /\ ss[k].start \in GroupTimes
          /\ ss[k].end \in GroupTimes
          /\ \A a, b \in GroupTimes :
                (Consecutive(a, b) /\ ss[k].start <= a /\ b <= ss[k].end)
                    => b - a <= ThreeMinutes
    /\ \A i, j \in 1..Len(ss) :
          i # j => \/ ss[j].start - ss[i].end > ThreeMinutes
                   \/ ss[i].start - ss[j].end > ThreeMinutes
    /\ \A t \in GroupTimes :
          Cardinality({k \in 1..Len(ss) : ss[k].start <= t /\ t <= ss[k].end}) = 1

\* the list is in order of time
InTimeOrder(ss) == \A k \in 1..(Len(ss) - 1) : ss[k].end < ss[k + 1].start

C22_SessionsPartitionTheGroup ==
    (Analyzed /\ Len(calcIn) >= 1) =>
        /\ Segmented(calcOut.sessionDetails)
        /\ Len(calcIn) >= 2 =>
              /\ Segmented(calcOut.loaderSessions)
              /\ InTimeOrder(calcOut.loaderSessions)
              /\ {<<s.start, s.end>> : s \in Range(calcOut.loaderSessions)}
                   = {<<s.start, s.end>> : s \in Range(calcOut.sessionDetails)}

\* events given out of order that fall into two sessions, one with a length
C22_Witness ==
    /\ Analyzed
    /\ ~IsAscending(calcIn)
    /\ Len(calcOut.sessionDetails) = 2
    /\ Len(calcOut.loaderSessions) = 2
    /\ \E k \in 1..2 : calcOut.loaderSessions[k].start < calcOut.loaderSessions[k].end

----------------------------------------------------------------------------
(* C23: every loaded entry gets the session identifier derived from its    *)
(* file's path, even when the record carries its own sessionId field: the  *)
(* parent directory name unless it is empty, "." or ".claude"; otherwise   *)
(* the file name without extension unless it is "usage" or "chat";         *)
(* otherwise "unknown". All entries of one file share one identifier, and  *)
(* a day's sessionIds are the distinct path-derived identifiers of the     *)
(* files that contributed events to it.                                    *)

DerivedId(path) ==
    IF path.parentDir \notin {"", ".", ".claude"} THEN path.parentDir
    ELSE IF path.fileName \notin {"usage", "chat"} THEN path.fileName
    ELSE "unknown"

\* the files with a record on the local date
ContributorsOn(date) ==
    {f \in 1..Len(files) :
        \E k \in 1..Len(files[f].lines) :
            /\ files[f].lines[k].valid
            /\ IsoDate(LocalDay(files[f].lines[k].timestamp, tz)) = date}

C23_SessionIdFromPath ==
    Done =>
        /\ \A k \in 1..Len(result.allEntries) :
              LET e == result.allEntries[k]
              IN  e.sessionId = DerivedId(files[e.filePath].path)
        /\ \A i \in 1..Len(Conversations) :
              LET ids == Conversations[i].sessionIds
              IN  /\ Range(ids) = {DerivedId(files[f].path) :
                                      f \in ContributorsOn(Conversations[i].date)}
                  /\ Cardinality(Range(ids)) = Len(ids)

\* a day with events from two files of one parent directory, one of the
\* records carrying a sessionId of its own
C23_Witness ==
    /\ Done
    /\ files[1].path.parentDir = "session-001"
    /\ files[2].path.parentDir = "session-001"
    /\ \E k \in 1..Len(files[1].lines) : files[1].lines[k].sessionId = "own-id"
    /\ \E i \in 1..Len(Conversations) :
          /\ ContributorsOn(Conversations[i].date) = {1, 2}
          /\ Conversations[i].sessionIds = <<"session-001">>

\* the file name and the fallback are used as well
C23_FileNameReached ==
    Done /\ \E k \in 1..Len(result.allEntries) : result.allEntries[k].sessionId = "xyz"
C23_UnknownReached ==
    Done /\ \E k \in 1..Len(result.allEntries) : result.allEntries[k].sessionId = "unknown"

----------------------------------------------------------------------------
(* C24: calculateProjectConversationTime (report generator) and            *)
(* calculateConversationTime (data loader) return the same duration string *)
(* for every list of timestamps, including the empty list ("0m") and a     *)
(* single entry ("1m").                                                    *)
C24_ReportAndLoaderAgree ==
    Analyzed =>
        /\ calcOut.projectTime = calcOut.loaderTime
        /\ Len(calcIn) = 0 => calcOut.projectTime = <<"0", "m">>
        /\ Len(calcIn) = 1 => calcOut.projectTime = <<"1", "m">>

\* several sessions, one of them longer than the minimum of one minute
C24_Witness ==
    /\ Analyzed
    /\ Len(calcOut.loaderSessions) >= 2
    /\ \E k \in 1..Len(calcOut.loaderSessions) :
          calcOut.loaderSessions[k].end - calcOut.loaderSessions[k].start > 60 * 1000
    /\ calcOut.projectTime = <<"4", "m">>

\* an hour and more, and the two early returns
C24_HoursReached == Analyzed /\ calcOut.projectTime = <<"1", "h", " ", "3", "m">>
C24_WholeHourReached == Analyzed /\ calcOut.projectTime = <<"1", "h">>
C24_EmptyReached == Analyzed /\ calcIn = <<>> /\ calcOut.loaderTime = <<"0", "m">>

----------------------------------------------------------------------------
(* C25: convertToMinutes is the inverse of the duration rendering: for     *)
(* every total T >= 0 of minutes, convertToMinutes applied to the rendered *)
(* string ("{m}m", "{h}h" or "{h}h {m}m") returns T.                       *)
C25_ConvertInvertsRendering ==
    Converted =>
        /\ IsDurationText(fmt.rendered)
        /\ DurationMinutes(fmt.rendered) = fmt.total
        /\ fmt.minutes = fmt.total

\* hours and minutes, with the space between them
C25_Witness ==
    /\ Converted
    /\ fmt.rendered = <<"1", "0", "h", " ", "1", "5", "m">>
    /\ fmt.minutes = 615

C25_WholeHoursReached == Converted /\ fmt.rendered = <<"2", "h">> /\ fmt.minutes = 120
C25_ZeroReached == Converted /\ fmt.rendered = <<"0", "m">> /\ fmt.minutes = 0

----------------------------------------------------------------------------
(* C26: analyzeUserToUserGaps considers only entries whose message role is *)
(* "user", taken in ascending timestamp order, and reports a gap between   *)
(* two consecutive user messages if and only if the time between them is   *)
(* greater than 3 minutes; the reported gaps are sorted by gap length      *)
(* descending.                                                             *)

\* the user messages of the list, earliest first
UserMessages == Ascending(SelectSeq(calcIn, LAMBDA entry : entry.role = "user"))

\* positions of the user messages that come more than 3 minutes after the
\* user message before them
LongPauses ==
    {k \in 2..Len(UserMessages) :
        UserMessages[k].timestamp - UserMessages[k - 1].timestamp > ThreeMinutes}

C26_GapsOverThreeMinutes ==
    Analyzed =>
        /\ Len(calcOut.gaps) = Cardinality(LongPauses)
        /\ {g.timestamp : g \in Range(calcOut.gaps)}
             = {UserMessages[k].timestamp : k \in LongPauses}
        /\ \A i, j \in 1..Len(calcOut.gaps) :
              i < j => calcOut.gaps[i].gap >= calcOut.gaps[j].gap

----------------------------------------------------------------------------
(* C27: for every non-empty entry list, the sessions returned by           *)
(* analyzeSessionDetails have message counts that sum to the number of     *)
(* entries, each duration equals max(1, floor((end - start) / 60000 ms)),  *)
(* the durations sum to the total minutes that                             *)
(* calculateProjectConversationTime computes for the same entries, and the *)
(* list is sorted by duration descending.                                  *)

RECURSIVE SumOfField(_, _)
SumOfField(ss, field) ==
    IF ss = <<>> THEN 0 ELSE Head(ss)[field] + SumOfField(Tail(ss), field)

C27_SessionDetailsAddUp ==
    (Analyzed /\ Len(calcIn) >= 1) =>
        LET details == calcOut.sessionDetails
        IN  /\ SumOfField(details, "messageCount") = Len(calcIn)
            /\ \A k \in 1..Len(details) :
                  details[k].duration = WholeMinutes(details[k].end - details[k].start)
            /\ IsDurationText(calcOut.projectTime)
            /\ SumOfField(details, "duration") = DurationMinutes(calcOut.projectTime)
            /\ \A i, j \in 1..Len(details) :
                  i < j => details[i].duration >= details[j].duration

\* the later of two sessions is the longer one and comes first
C27_Witness ==
    /\ Analyzed
    /\ Len(calcOut.sessionDetails) = 2
    /\ calcOut.sessionDetails[1].start > calcOut.sessionDetails[2].end
    /\ calcOut.sessionDetails[1].duration > calcOut.sessionDetails[2].duration
    /\ calcOut.sessionDetails[1].messageCount = 2

====
